---------------------------- MODULE Spec2Model ----------------------------
(***************************************************************************)
(* Flight delay prediction: the training script (create_model.py) that     *)
(* cleans the flight table, fits a classifier and writes the model, its    *)
(* metadata and the airports table, and the Flask server (server/app.py)   *)
(* that loads these three artifacts and answers /predict, /airports,       *)
(* /airports/<id>, /health and /.                                          *)
(*                                                                         *)
(* Representation.  A data frame is a sequence of records (one per row,    *)
(* in row order).  A missing numeric cell is NaN.  A probability p is the  *)
(* integer 100 * p, so a "percent" value (p * 100 in the code) is the      *)
(* integer 100 * 100 * p.  Airport names are strings ordered as Python     *)
(* orders them (StrOrder lists the names used, ascending).                 *)
(***************************************************************************)
EXTENDS Integers, Sequences, FiniteSets, TLC

VARIABLES
    tpc,            \* create_model.py: position in the script
    df,             \* create_model.py: the raw flight table (data/flights.csv)
    df_clean,       \* create_model.py: the cleaned table
    trained,        \* create_model.py: the fitted classifier object
    all_airports,   \* create_model.py: the airports data frame of step 11
    files,          \* the three artifact files on disk
    spc,            \* app.py: position of the server process
    mode,           \* app.py: run as a script ("main") or imported by a host ("wsgi")
    model,          \* app.py global
    model_info,     \* app.py global
    airports_df,    \* app.py global
    request,        \* the request being answered (last one answered)
    response,       \* its response
    calls,          \* number of model.predict_proba calls made for that request
    prev,           \* status of the request answered before it (0: none)
    threads         \* the request each worker thread of the server is in

vars == <<tpc, df, df_clean, trained, all_airports, files,
          spc, mode, model, model_info, airports_df, request, response, calls, prev,
          threads>>

trainVars == <<tpc, df, df_clean, trained, all_airports, files>>
serverVars == <<spc, mode, model, model_info, airports_df, request, response, calls, prev,
                threads>>

---------------------------------------------------------------------------
(* Bounds of the model. *)

\* largest number of rows of the raw flight table
MaxRows == 2
\* airport ids of the raw table are 1..MaxId (and missing)
MaxId == 1

---------------------------------------------------------------------------
(* Values. *)

\* a missing cell of a numeric column (pandas NaN)
NaN == 0 - 1
\* Python None, and a file that does not exist or cannot be read
None == [none |-> TRUE]
Missing == [missing |-> TRUE]
\* a data frame held in a variable that may also hold None
DataFrame(rows) == [rows |-> rows]

\* the worker threads of the server, and a thread that holds no request
Threads == {"t1", "t2"}
Idle == [pc |-> "idle"]
NoThreads == [t \in Threads |-> Idle]

Names == {"Alpha Field", "Bravo Intl"}
\* the names in ascending Python string order
StrOrder == <<"Alpha Field", "Bravo Intl">>
StrRank(s) == CHOOSE i \in 1..Len(StrOrder) : StrOrder[i] = s
StrLE(a, b) == StrRank(a) <= StrRank(b)

Cities == {"Springfield"}
States == {"XX"}

IdCells == (1..MaxId) \cup {NaN}

\* The DepDel15 column of the raw table holds floats (it has missing cells):
\* a float x is held as the integer 2 * x, so 2 is 1.0 and 3 is 1.5.
LabelCells == {NaN, 0, 1, 2, 3, 4}

FlightRowsOf(idCells, labelCells, names) ==
    [DayOfWeek : {1}, DepDel15 : labelCells,
     OriginAirportID : idCells, OriginAirportName : names,
     OriginCity : Cities, OriginState : States,
     DestAirportID : idCells, DestAirportName : names,
     DestCity : Cities, DestState : States]

\* flight rows that differ in their airports (all delayed: DepDel15 = 1.0)
FlightRows == FlightRowsOf(IdCells, {2}, Names)

RawTables == UNION {[1..n -> FlightRows] : n \in 1..MaxRows}

\* flight tables that differ in their labels and airport ids
LabelTables ==
    UNION {[1..n -> FlightRowsOf(IdCells, LabelCells, {"Alpha Field"})] : n \in 1..MaxRows}

NumericColumns == {"DayOfWeek", "DepDel15", "OriginAirportID", "DestAirportID"}

---------------------------------------------------------------------------
(* create_model.py, steps 4 and 5: cleaning and feature selection. *)

\* DataFrame.fillna(v): every missing cell becomes v
fillna(frame, v) ==
    [i \in DOMAIN frame |->
        [c \in DOMAIN frame[i] |->
            IF c \in NumericColumns /\ frame[i][c] = NaN THEN v ELSE frame[i][c]]]

\* Series.astype(int) on a float column without missing cells: the fraction
\* is dropped (the floats of the model are not negative)
astype_int(frame, col) ==
    [i \in DOMAIN frame |-> [frame[i] EXCEPT ![col] = frame[i][col] \div 2]]

\* df_clean = df.fillna(0); df_clean['DepDel15'] = df_clean['DepDel15'].astype(int)
CleanData(frame) == astype_int(fillna(frame, 0), "DepDel15")

features == <<"DayOfWeek", "OriginAirportID">>

---------------------------------------------------------------------------
(* The classifier.  A fitted forest is an opaque object of scikit-learn;   *)
(* it is modelled as a deterministic map from a feature row to the pair    *)
(* (P(class 0), P(class 1)), which sums to 1.  An object that is not a     *)
(* classifier raises on predict_proba.                                     *)

ProbaLevels == <<0, 30, 50, 60, 70, 80, 90, 100>>

Forests == {[kind |-> "RandomForestClassifier", base |-> 0, step |-> 1],
            [kind |-> "RandomForestClassifier", base |-> 3, step |-> 2]}
NotAClassifier == [kind |-> "object", base |-> 0, step |-> 0]

Raised == [raised |-> TRUE]

\* bool is a subclass of int in Python: True is 1 and False is 0
PyInt(v) == IF v.kind = "bool" THEN (IF v.val = 1 THEN 1 ELSE 0) ELSE v.val

predict_proba(m, X) ==
    IF m.kind # "RandomForestClassifier" THEN Raised
    ELSE LET p1 == ProbaLevels[((m.base + m.step * X[1] + X[2]) % Len(ProbaLevels)) + 1]
         IN  <<100 - p1, p1>>

---------------------------------------------------------------------------
(* create_model.py, step 11: the airports table. *)

\* df_clean[[...]].copy() with the columns renamed
origin_airports(frame) ==
    [i \in DOMAIN frame |->
        [AirportID |-> frame[i].OriginAirportID, AirportName |-> frame[i].OriginAirportName,
         City |-> frame[i].OriginCity, State |-> frame[i].OriginState]]

dest_airports(frame) ==
    [i \in DOMAIN frame |->
        [AirportID |-> frame[i].DestAirportID, AirportName |-> frame[i].DestAirportName,
         City |-> frame[i].DestCity, State |-> frame[i].DestState]]

\* pd.concat([a, b])
concat(a, b) == a \o b

\* drop_duplicates with keep='last'
drop_duplicates_KeepLast(frame) ==
    LET keep == {i \in DOMAIN frame :
                    \A j \in (i + 1)..Len(frame) : frame[j].AirportID # frame[i].AirportID}
        F[i \in 0..Len(frame)] ==
            IF i = 0 THEN <<>>
            ELSE IF i \in keep THEN Append(F[i - 1], frame[i]) ELSE F[i - 1]
    IN  F[Len(frame)]

\* DataFrame.drop_duplicates(subset=['AirportID']): keep='first'
drop_duplicates(frame) ==
    LET keep == {i \in DOMAIN frame :
                    \A j \in 1..(i - 1) : frame[j].AirportID # frame[i].AirportID}
        F[i \in 0..Len(frame)] ==
            IF i = 0 THEN <<>>
            ELSE IF i \in keep THEN Append(F[i - 1], frame[i]) ELSE F[i - 1]
    IN  F[Len(frame)]

\* insertion of a row into a frame sorted by the integer column AirportID
InsertById(sorted, row) ==
    LET k == Cardinality({i \in DOMAIN sorted : sorted[i].AirportID <= row.AirportID})
    IN  SubSeq(sorted, 1, k) \o <<row>> \o SubSeq(sorted, k + 1, Len(sorted))

\* DataFrame.sort_values('AirportID').reset_index(drop=True)
sort_values_by_id(frame) ==
    LET F[i \in 0..Len(frame)] ==
            IF i = 0 THEN <<>> ELSE InsertById(F[i - 1], frame[i])
    IN  F[Len(frame)]

\* the airports table built without removing duplicates
BuildAirports_NoDedup(frame) ==
    sort_values_by_id(concat(origin_airports(frame), dest_airports(frame)))

\* all_airports = pd.concat([origin, dest]).drop_duplicates(...); then sorted by id
BuildAirports(frame) ==
    sort_values_by_id(drop_duplicates(concat(origin_airports(frame), dest_airports(frame))))

CsvHeader == <<"AirportID", "AirportName", "City", "State">>

\* DataFrame.to_csv(index=False): a header line and one line of fields per row
to_csv(frame) ==
    [header |-> CsvHeader,
     lines |-> [i \in DOMAIN frame |->
                  <<frame[i].AirportID, frame[i].AirportName, frame[i].City, frame[i].State>>]]

\* pd.read_csv: one record per line, its columns named by the header
read_csv(csv) ==
    [i \in DOMAIN csv.lines |->
        [AirportID |-> csv.lines[i][1], AirportName |-> csv.lines[i][2],
         City |-> csv.lines[i][3], State |-> csv.lines[i][4]]]

\* feature_info of step 10
feature_info(accuracy) ==
    [features |-> features, model_type |-> "RandomForestClassifier", accuracy |-> accuracy,
     description |-> "Predicts probability of flight delay >15 minutes based on day of week and airport"]

Accuracies == {95}


\* pickle.dump / pickle.load
pickle_dump(obj) == [pickled |-> obj]
pickle_load(blob) == blob.pickled

NoFiles == [model_pkl |-> Missing, model_info_pkl |-> Missing, airports_csv |-> Missing]

---------------------------------------------------------------------------
(* create_model.py as a process: the script runs top to bottom. *)

\* step 4: data cleaning
Clean ==
    /\ tpc = "clean"
    /\ df_clean' = CleanData(df)
    /\ tpc' = "train"
    /\ UNCHANGED <<df, trained, all_airports, files>>

\* steps 5 to 9: split, fit, evaluate.  scikit-learn either returns a fitted
\* forest or raises (for instance when a class is too small to stratify), and
\* an uncaught exception ends the script.
Train ==
    /\ tpc = "train"
    /\ \/ \E f \in Forests : trained' = f /\ tpc' = "save_model"
       \/ trained' = trained /\ tpc' = "aborted"
    /\ UNCHANGED <<df, df_clean, all_airports, files>>

\* step 10: the model and its metadata are pickled
SaveModel ==
    /\ tpc = "save_model"
    /\ \E acc \in Accuracies :
          files' = [files EXCEPT !.model_pkl = pickle_dump(trained),
                                 !.model_info_pkl = pickle_dump(feature_info(acc))]
    /\ tpc' = "airports"
    /\ UNCHANGED <<df, df_clean, trained, all_airports>>

\* step 11: the airports data frame is built
CreateAirports ==
    /\ tpc = "airports"
    /\ all_airports' = BuildAirports(df_clean)
    /\ tpc' = "save_airports"
    /\ UNCHANGED <<df, df_clean, trained, files>>

\* step 11, end: the airports data frame is written
SaveAirports ==
    /\ tpc = "save_airports"
    /\ files' = [files EXCEPT !.airports_csv = to_csv(all_airports)]
    /\ tpc' = "done"
    /\ UNCHANGED <<df, df_clean, trained, all_airports>>

ServerOff ==
    /\ spc = "off"
    /\ mode = "main"
    /\ model = None
    /\ model_info = None
    /\ airports_df = None
    /\ request = [op |-> "none"]
    /\ response = [status |-> 0, body |-> [error |-> ""]]
    /\ calls = 0
    /\ prev = 0
    /\ threads = NoThreads

InitTrain ==
    /\ df \in RawTables
    /\ tpc = "clean"
    /\ df_clean = <<>>
    /\ trained = NotAClassifier
    /\ all_airports = <<>>
    /\ files = NoFiles
    /\ ServerOff

NextTrain ==
    /\ \/ Clean
       \/ Train
       \/ SaveModel
       \/ CreateAirports
       \/ SaveAirports
    /\ UNCHANGED serverVars

SpecTrain == InitTrain /\ [][NextTrain]_vars

\* the cleaning step alone, over tables that differ in their labels
InitClean ==
    /\ df \in LabelTables
    /\ tpc = "clean"
    /\ df_clean = <<>>
    /\ trained = NotAClassifier
    /\ all_airports = <<>>
    /\ files = NoFiles
    /\ ServerOff

NextClean == Clean /\ UNCHANGED serverVars

SpecClean == InitClean /\ [][NextClean]_vars

---------------------------------------------------------------------------
(* server/app.py: start-up. *)

\* load_model_and_data(): the three loads in order inside one try; the first
\* that raises leaves the globals assigned so far and returns False.
\* The result is <<model, model_info, airports_df, returned value>>.
load_model_and_data(fs, m, info, adf) ==
    IF fs.model_pkl = Missing THEN <<m, info, adf, FALSE>>
    ELSE IF fs.model_info_pkl = Missing
         THEN <<pickle_load(fs.model_pkl), info, adf, FALSE>>
    ELSE IF fs.airports_csv = Missing
         THEN <<pickle_load(fs.model_pkl), pickle_load(fs.model_info_pkl), adf, FALSE>>
    ELSE <<pickle_load(fs.model_pkl), pickle_load(fs.model_info_pkl),
           DataFrame(read_csv(fs.airports_csv)), TRUE>>

\* the __main__ block with the returned value ignored
MainBranch_Always(ok) == "serving"

\* the position after `if load_model_and_data():` of the __main__ block:
\* app.run(...) or the two prints and the end of the script
MainBranch(ok) == IF ok THEN "serving" ELSE "exited"

\* python app.py
RunMain ==
    /\ mode = "main"
    /\ spc = "start"
    /\ LET r == load_model_and_data(files, model, model_info, airports_df)
       IN  /\ model' = r[1]
           /\ model_info' = r[2]
           /\ airports_df' = r[3]
           /\ spc' = MainBranch(r[4])
    /\ UNCHANGED <<mode, request, response, calls, prev, threads>>

\* A host that imports the module (a WSGI server, a test client) gets `app`
\* with the three globals None; before it serves it may call
\* load_model_and_data() itself, and it serves whatever that call returned.
HostLoad ==
    /\ mode = "wsgi"
    /\ spc = "imported"
    /\ request.op = "none"
    /\ LET r == load_model_and_data(files, model, model_info, airports_df)
       IN  /\ model' = r[1]
           /\ model_info' = r[2]
           /\ airports_df' = r[3]
    /\ spc' = "hosted"
    /\ UNCHANGED <<mode, request, response, calls, prev, threads>>

\* requests reach the handlers once app.run() runs or a host serves the app
Serving == spc \in {"serving", "imported", "hosted"}

---------------------------------------------------------------------------
(* server/app.py: requests and responses. *)

\* A JSON value of the request body: an integer, true/false, or a string.
\* A key that the body does not hold is Absent.
JInt(n) == [kind |-> "int", val |-> n]
JBool(b) == [kind |-> "bool", val |-> IF b THEN 1 ELSE 0]
JStr == [kind |-> "str", val |-> 0]
Absent == [kind |-> "absent", val |-> 0]

DayValues == {JInt(n) : n \in {0, 1, 7, 8}} \cup {JBool(TRUE), JStr, Absent}
AirportValues == {JInt(n) : n \in 0..(MaxId + 1)} \cup {JBool(TRUE), JStr, Absent}
Payloads == [day_of_week : DayValues, airport_id : AirportValues]
\* the ids a URL /airports/<int:airport_id> can carry
UrlIds == 0..(MaxId + 1)

\* `key in data`
HasKey(data, key) == data[key] # Absent
\* `not data`: the body is the empty object
NotData(data) == \A key \in DOMAIN data : ~HasKey(data, key)

\* isinstance(v, int)
isinstance_int(v) == v.kind \in {"int", "bool"}

Error(status, msg) == [status |-> status, body |-> [error |-> msg], calls |-> 0]

\* line 102-103: the status returned while `model is None`
ModelNotLoaded == Error(500, "Model not loaded")

\* line 121: the test on day_of_week
DayInvalid(day_of_week) ==
    ~isinstance_int(day_of_week) \/ PyInt(day_of_week) < 1 \/ PyInt(day_of_week) > 7

\* line 127: the test on airport_id
AirportIdInvalid(airport_id) == ~isinstance_int(airport_id)

\* airports_df[airports_df['AirportID'] == airport_id]
RowsWithId(adf, id) == SelectSeq(adf.rows, LAMBDA r : r.AirportID = id)

\* the membership test made without the `is not None` guard: with no
\* directory every id is reported unknown
AirportUnknown_NoGuard(adf, airport_id) ==
    adf = None \/ \A i \in DOMAIN adf.rows : adf.rows[i].AirportID # PyInt(airport_id)

\* line 133-134: `airport_id not in airports_df['AirportID'].values`, when a
\* directory is loaded
AirportUnknown(adf, airport_id) ==
    adf # None /\ \A i \in DOMAIN adf.rows : adf.rows[i].AirportID # PyInt(airport_id)

\* Validate with the two type tests made before the range test
Validate_TypesFirst(adf, data) ==
    IF NotData(data) THEN Error(400, "No JSON data provided")
    ELSE IF ~HasKey(data, "day_of_week") \/ ~HasKey(data, "airport_id")
         THEN Error(400, "Missing required fields: day_of_week and airport_id")
    ELSE IF ~isinstance_int(data.day_of_week)
         THEN Error(400, "day_of_week must be an integer between 1 (Monday) and 7 (Sunday)")
    ELSE IF AirportIdInvalid(data.airport_id)
         THEN Error(400, "airport_id must be an integer")
    ELSE IF DayInvalid(data.day_of_week)
         THEN Error(400, "day_of_week must be an integer between 1 (Monday) and 7 (Sunday)")
    ELSE IF AirportUnknown(adf, data.airport_id)
         THEN Error(400, "Airport ID not found in database")
    ELSE Error(200, "ok")

\* lines 108-137: the checks in the order of the code; "ok" when all pass
Validate(adf, data) ==
    IF NotData(data) THEN Error(400, "No JSON data provided")
    ELSE IF ~HasKey(data, "day_of_week") \/ ~HasKey(data, "airport_id")
         THEN Error(400, "Missing required fields: day_of_week and airport_id")
    ELSE IF DayInvalid(data.day_of_week)
         THEN Error(400, "day_of_week must be an integer between 1 (Monday) and 7 (Sunday)")
    ELSE IF AirportIdInvalid(data.airport_id)
         THEN Error(400, "airport_id must be an integer")
    ELSE IF AirportUnknown(adf, data.airport_id)
         THEN Error(400, "Airport ID not found in database")
    ELSE Error(200, "ok")

day_names == <<"Monday", "Tuesday", "Wednesday", "Thursday", "Friday", "Saturday", "Sunday">>

\* confidence taken as the probability of delay
ConfidencePercent_Delay(proba) == proba[2] * 100

\* line 148: max(delay_probabilities) * 100
ConfidencePercent(proba) == (IF proba[1] >= proba[2] THEN proba[1] ELSE proba[2]) * 100

\* line 144: delay_probabilities[1]
DelayProbability(proba) == proba[2]
\* line 145: delay_probabilities[0]
NoDelayProbability(proba) == proba[1]

\* the tiers with the bounds included
ConfidenceLevel_Inclusive(confidence_percent) ==
    IF confidence_percent >= 80 * 100 THEN "High"
    ELSE IF confidence_percent >= 60 * 100 THEN "Medium" ELSE "Low"

\* line 176; a percent value is scaled by 100
ConfidenceLevel(confidence_percent) ==
    IF confidence_percent > 80 * 100 THEN "High"
    ELSE IF confidence_percent > 60 * 100 THEN "Medium" ELSE "Low"

\* the airport name never resolved
AirportName_Unknown(adf, airport_id) == "Unknown"

\* lines 150-155
AirportName(adf, airport_id) ==
    IF adf = None THEN "Unknown"
    ELSE LET airport_row == RowsWithId(adf, PyInt(airport_id))
         IN  IF airport_row = <<>> THEN "Unknown" ELSE airport_row[1].AirportName

\* the feature row with the two fields exchanged
FeatureVector_Swapped(data) == <<PyInt(data.airport_id), PyInt(data.day_of_week)>>

\* line 140: features = [[day_of_week, airport_id]]
FeatureVector(data) == <<PyInt(data.day_of_week), PyInt(data.airport_id)>>

\* lines 180-181: the answer when the classifier call raises
PredictionFailed == [status |-> 500, body |-> [error |-> "Prediction failed"], calls |-> 1]

\* lines 144-178: the response built from the probabilities the classifier gave
PredictionResponse(delay_probabilities, adf, data) ==
    LET day_of_week == data.day_of_week
        airport_id == data.airport_id
        delay_probability == DelayProbability(delay_probabilities)
        confidence_percent == ConfidencePercent(delay_probabilities)
        airport_name == AirportName(adf, airport_id)
    IN [status |-> 200,
        body |-> [delay_probability |-> delay_probability,
                  delay_chance_percent |-> delay_probability * 100,
                  confidence_percent |-> confidence_percent,
                  no_delay_probability |-> NoDelayProbability(delay_probabilities),
                  input |-> [day_of_week |-> day_of_week,
                             day_name |-> day_names[PyInt(day_of_week)],
                             airport_id |-> airport_id,
                             airport_name |-> airport_name],
                  interpretation |->
                      [message |-> <<delay_probability * 100,
                                     day_names[PyInt(day_of_week)], airport_name>>,
                       confidence_level |-> ConfidenceLevel(confidence_percent)]],
        calls |-> 1]

\* lines 139-178: the prediction and the response built from it
Predict(m, adf, data) ==
    LET delay_probabilities == predict_proba(m, FeatureVector(data))
    IN  IF delay_probabilities = Raised
        THEN PredictionFailed
        ELSE PredictionResponse(delay_probabilities, adf, data)

\* predict_delay with the body validated before the model is tested
predict_delay_ValidateFirst(m, adf, data) ==
    LET v == Validate(adf, data)
    IN  IF v.status # 200 THEN v
        ELSE IF m = None THEN ModelNotLoaded ELSE Predict(m, adf, data)

\* predict_delay(), lines 100-181
predict_delay(m, adf, data) ==
    IF m = None THEN ModelNotLoaded
    ELSE LET v == Validate(adf, data)
         IN  IF v.status # 200 THEN v ELSE Predict(m, adf, data)

\* the dictionary built for one airport, lines 213-218 and 255-260
AirportJson(airport) ==
    [id |-> airport.AirportID, name |-> airport.AirportName,
     city |-> airport.City, state |-> airport.State]

\* the listing left in the order of the table (by id)
sort_values_by_name_Unsorted(rows) == {rows}

\* DataFrame.sort_values('AirportName'): every order of the rows that is
\* ascending by name (the default sort is not stable, so rows of equal name
\* may come in any order)
sort_values_by_name(rows) ==
    LET n == Len(rows)
        perms == {p \in [1..n -> 1..n] : \A i, j \in 1..n : i # j => p[i] # p[j]}
    IN  {[i \in 1..n |-> rows[p[i]]] : p \in
            {q \in perms : \A i \in 1..(n - 1) :
                StrLE(rows[q[i]].AirportName, rows[q[i + 1]].AirportName)}}

\* get_airports(), lines 202-226, with the rows in the order `sorted_airports`
get_airports(adf, sorted_airports) ==
    IF adf = None THEN Error(500, "Airports data not loaded")
    ELSE LET airports_list == [i \in DOMAIN sorted_airports |-> AirportJson(sorted_airports[i])]
         IN  [status |-> 200,
              body |-> [airports |-> airports_list, total_count |-> Len(airports_list)],
              calls |-> 0]

\* a lookup miss reported as a validation error
AirportNotFound_400 == Error(400, "Airport with ID not found")

\* line 250: the status of a lookup that finds no row
AirportNotFound == Error(404, "Airport with ID not found")

\* get_airport_by_id(), lines 243-264
get_airport_by_id(adf, airport_id) ==
    IF adf = None THEN Error(500, "Airports data not loaded")
    ELSE LET airport_row == RowsWithId(adf, airport_id)
         IN  IF airport_row = <<>> THEN AirportNotFound
             ELSE [status |-> 200, body |-> [airport |-> AirportJson(airport_row[1])],
                   calls |-> 0]

\* health_check(), lines 73-79
health_check(m, adf) ==
    [status |-> 200,
     body |-> [status |-> "healthy", model_loaded |-> (m # None),
               airports_loaded |-> (adf # None)],
     calls |-> 0]

\* home(), lines 55-70
home(info) ==
    [status |-> 200,
     body |-> [message |-> "Flight Delay Prediction API", version |-> "1.0",
               model_info |-> IF info # None
                              THEN [type |-> info.model_type, accuracy |-> info.accuracy,
                                    features |-> info.features]
                              ELSE [type |-> "Not loaded", accuracy |-> 0,
                                    features |-> <<"Unknown">>]],
     calls |-> 0]

\* a handler that drops the model when a request fails
Answer_DropOnError(req, r) ==
    /\ Serving
    /\ request' = req
    /\ response' = [status |-> r.status, body |-> r.body]
    /\ calls' = r.calls
    /\ prev' = response.status
    /\ model' = IF r.status = 200 THEN model ELSE None
    /\ UNCHANGED <<spc, mode, model_info, airports_df, threads>>

\* one request answered: the handlers assign no global
Answer(req, r) ==
    /\ Serving
    /\ request' = req
    /\ response' = [status |-> r.status, body |-> r.body]
    /\ calls' = r.calls
    /\ prev' = response.status
    /\ UNCHANGED <<spc, mode, model, model_info, airports_df, threads>>

PredictDelay ==
    \E data \in Payloads :
        Answer([op |-> "predict", data |-> data], predict_delay(model, airports_df, data))

GetAirports ==
    \E sorted_airports \in (IF airports_df = None THEN {<<>>}
                            ELSE sort_values_by_name(airports_df.rows)) :
        Answer([op |-> "airports"], get_airports(airports_df, sorted_airports))

GetAirportById ==
    \E airport_id \in UrlIds :
        Answer([op |-> "airport", airport_id |-> airport_id],
               get_airport_by_id(airports_df, airport_id))

HealthCheck == Answer([op |-> "health"], health_check(model, airports_df))

Home == Answer([op |-> "home"], home(model_info))

---------------------------------------------------------------------------
(* The server as a process, over the artifact files a training run wrote. *)

\* the airports tables create_model.py can write
AirportsFiles == {to_csv(BuildAirports(CleanData(t))) : t \in RawTables}

\* the files the server finds: each is absent (or unreadable), or holds what a
\* training run wrote; model.pkl may also hold an object that is no classifier
FileStates ==
    [model_pkl : {Missing} \cup {pickle_dump(f) : f \in Forests \cup {NotAClassifier}},
     model_info_pkl : {Missing} \cup {pickle_dump(feature_info(acc)) : acc \in Accuracies},
     airports_csv : {Missing} \cup AirportsFiles]

Init ==
    /\ files \in FileStates
    /\ tpc = "done"
    /\ df = <<>>
    /\ df_clean = <<>>
    /\ trained = NotAClassifier
    /\ all_airports = <<>>
    /\ mode \in {"main", "wsgi"}
    /\ spc = (IF mode = "main" THEN "start" ELSE "imported")
    /\ model = None
    /\ model_info = None
    /\ airports_df = None
    /\ request = [op |-> "none"]
    /\ response = [status |-> 0, body |-> [error |-> ""]]
    /\ calls = 0
    /\ prev = 0
    /\ threads = NoThreads

Next ==
    /\ \/ RunMain
       \/ HostLoad
       \/ PredictDelay
       \/ GetAirports
       \/ GetAirportById
       \/ HealthCheck
       \/ Home
    /\ UNCHANGED trainVars

Spec == Init /\ [][Next]_vars

\* The server started as a script over complete artifacts whose metadata
\* records the two feature names in either order (the order of the columns the
\* classifier of that artifact was fitted on).
FeatureOrders == {features, <<features[2], features[1]>>}

MetadataFiles ==
    {pickle_dump([feature_info(acc) EXCEPT !.features = order]) :
        acc \in Accuracies, order \in FeatureOrders}

InitFeatures ==
    /\ files \in [model_pkl : {pickle_dump(f) : f \in Forests},
                  model_info_pkl : MetadataFiles,
                  airports_csv : AirportsFiles]
    /\ tpc = "done"
    /\ df = <<>>
    /\ df_clean = <<>>
    /\ trained = NotAClassifier
    /\ all_airports = <<>>
    /\ mode = "main"
    /\ spc = "start"
    /\ model = None
    /\ model_info = None
    /\ airports_df = None
    /\ request = [op |-> "none"]
    /\ response = [status |-> 0, body |-> [error |-> ""]]
    /\ calls = 0
    /\ prev = 0
    /\ threads = NoThreads

NextFeatures ==
    /\ \/ RunMain
       \/ PredictDelay
       \/ Home
    /\ UNCHANGED trainVars

SpecFeatures == InitFeatures /\ [][NextFeatures]_vars

---------------------------------------------------------------------------
(* The handlers run by two threads of the server at once.  A handler is cut *)
(* at each place it reads a global, so that steps of the other thread can   *)
(* fall between two reads.                                                  *)

ConcPayloads ==
    [day_of_week : {JInt(1), JInt(8)}, airport_id : {JInt(0), JInt(MaxId + 1)}]

ConcRequests ==
    {[op |-> "predict", data |-> data] : data \in ConcPayloads}
        \cup {[op |-> "airport", airport_id |-> id] : id \in {0, MaxId + 1}}
        \cup {[op |-> "airports"], [op |-> "health"], [op |-> "home"]}

\* the first place of each handler
Entry(op) ==
    CASE op = "predict" -> "p_gate"
      [] op = "airports" -> "l_gate"
      [] op = "airport" -> "a_gate"
      [] op = "health" -> "h_model"
      [] op = "home" -> "home"

Goto(t, pc) == threads' = [threads EXCEPT ![t] = [pc |-> pc, req |-> threads[t].req]]

\* the handler of thread t returns r
Finish(t, r) ==
    threads' = [threads EXCEPT ![t] =
                   [pc |-> "done", req |-> threads[t].req,
                    resp |-> [status |-> r.status, body |-> r.body]]]

\* a sort made in place: the frame the global names is the sorted one
AfterSort_InPlace(adf, sorted_airports) == DataFrame(sorted_airports)

\* line 208: sort_values without inplace returns a new frame and leaves the
\* frame the global names as it is
AfterSort(adf, sorted_airports) == adf

\* a thread takes a request
Accept(t) ==
    /\ threads[t].pc \in {"idle", "done"}
    /\ \E req \in ConcRequests :
          threads' = [threads EXCEPT ![t] = [pc |-> Entry(req.op), req |-> req]]
    /\ UNCHANGED <<model, model_info, airports_df>>

\* predict_delay, line 102: `if model is None`
PredictGate(t) ==
    /\ threads[t].pc = "p_gate"
    /\ IF model = None THEN Finish(t, ModelNotLoaded) ELSE Goto(t, "p_validate")
    /\ UNCHANGED <<model, model_info, airports_df>>

\* predict_delay, lines 105-137: the checks, which read airports_df
PredictValidate(t) ==
    /\ threads[t].pc = "p_validate"
    /\ LET v == Validate(airports_df, threads[t].req.data)
       IN  IF v.status # 200 THEN Finish(t, v) ELSE Goto(t, "p_call")
    /\ UNCHANGED <<model, model_info, airports_df>>

\* predict_delay, lines 140-145: the classifier call, which reads model
PredictCall(t) ==
    /\ threads[t].pc = "p_call"
    /\ LET delay_probabilities ==
               IF model = None THEN Raised
               ELSE predict_proba(model, FeatureVector(threads[t].req.data))
       IN  IF delay_probabilities = Raised
           THEN Finish(t, PredictionFailed)
           ELSE threads' = [threads EXCEPT ![t] =
                               [pc |-> "p_respond", req |-> threads[t].req,
                                proba |-> delay_probabilities]]
    /\ UNCHANGED <<model, model_info, airports_df>>

\* predict_delay, lines 148-178: the airport name, which reads airports_df,
\* and the response
PredictRespond(t) ==
    /\ threads[t].pc = "p_respond"
    /\ Finish(t, PredictionResponse(threads[t].proba, airports_df, threads[t].req.data))
    /\ UNCHANGED <<model, model_info, airports_df>>

\* get_airports, line 204: `if airports_df is None`
ListGate(t) ==
    /\ threads[t].pc = "l_gate"
    /\ IF airports_df = None
       THEN Finish(t, Error(500, "Airports data not loaded"))
       ELSE Goto(t, "l_sort")
    /\ UNCHANGED <<model, model_info, airports_df>>

\* get_airports, lines 208-226: the sort, which reads airports_df again, and
\* the response; a frame that is None by now raises inside the try
ListSort(t) ==
    /\ threads[t].pc = "l_sort"
    /\ IF airports_df = None
       THEN /\ Finish(t, Error(500, "Failed to retrieve airports"))
            /\ UNCHANGED airports_df
       ELSE \E sorted_airports \in sort_values_by_name(airports_df.rows) :
               /\ Finish(t, get_airports(airports_df, sorted_airports))
               /\ airports_df' = AfterSort(airports_df, sorted_airports)
    /\ UNCHANGED <<model, model_info>>

\* get_airport_by_id, line 244: `if airports_df is None`
LookupGate(t) ==
    /\ threads[t].pc = "a_gate"
    /\ IF airports_df = None
       THEN Finish(t, Error(500, "Airports data not loaded"))
       ELSE Goto(t, "a_row")
    /\ UNCHANGED <<model, model_info, airports_df>>

\* get_airport_by_id, lines 247-264: the selection, which reads airports_df
\* again, and the response
LookupRow(t) ==
    /\ threads[t].pc = "a_row"
    /\ IF airports_df = None
       THEN Finish(t, Error(500, "Failed to retrieve airport"))
       ELSE Finish(t, get_airport_by_id(airports_df, threads[t].req.airport_id))
    /\ UNCHANGED <<model, model_info, airports_df>>

\* health_check, line 77: `model is not None`
HealthModel(t) ==
    /\ threads[t].pc = "h_model"
    /\ threads' = [threads EXCEPT ![t] =
                      [pc |-> "h_airports", req |-> threads[t].req, seen |-> model]]
    /\ UNCHANGED <<model, model_info, airports_df>>

\* health_check, line 78: `airports_df is not None`, and the response
HealthAirports(t) ==
    /\ threads[t].pc = "h_airports"
    /\ Finish(t, health_check(threads[t].seen, airports_df))
    /\ UNCHANGED <<model, model_info, airports_df>>

\* home, lines 57-70, which reads model_info
HomeInfo(t) ==
    /\ threads[t].pc = "home"
    /\ Finish(t, home(model_info))
    /\ UNCHANGED <<model, model_info, airports_df>>

\* the airports tables of a training run over at most one flight
ConcDirectories ==
    {to_csv(BuildAirports(CleanData(t))) : t \in {u \in RawTables : Len(u) <= 1}}

ConcFiles ==
    [model_pkl : {Missing, pickle_dump(NotAClassifier)}
                     \cup {pickle_dump(f) : f \in {g \in Forests : g.step = 1}},
     model_info_pkl : {pickle_dump(feature_info(acc)) : acc \in Accuracies},
     airports_csv : {Missing} \cup ConcDirectories]

\* the globals as the start-up left them: None in a host that made no load
LoadedGlobals ==
    IF spc = "imported" THEN <<None, None, None, FALSE>>
    ELSE load_model_and_data(files, None, None, None)

\* The server is serving: started as a script with a load that returned
\* True, or imported by a host that called the load once or not at all.
InitConc ==
    /\ files \in ConcFiles
    /\ tpc = "done"
    /\ df = <<>>
    /\ df_clean = <<>>
    /\ trained = NotAClassifier
    /\ all_airports = <<>>
    /\ mode \in {"main", "wsgi"}
    /\ spc \in (IF mode = "wsgi" THEN {"imported", "hosted"}
                ELSE {MainBranch(load_model_and_data(files, None, None, None)[4])} \ {"exited"})
    /\ model = LoadedGlobals[1]
    /\ model_info = LoadedGlobals[2]
    /\ airports_df = LoadedGlobals[3]
    /\ request = [op |-> "none"]
    /\ response = [status |-> 0, body |-> [error |-> ""]]
    /\ calls = 0
    /\ prev = 0
    /\ threads = NoThreads

NextConc ==
    /\ \/ \E t \in Threads : Accept(t)
       \/ \E t \in Threads : PredictGate(t)
       \/ \E t \in Threads : PredictValidate(t)
       \/ \E t \in Threads : PredictCall(t)
       \/ \E t \in Threads : PredictRespond(t)
       \/ \E t \in Threads : ListGate(t)
       \/ \E t \in Threads : ListSort(t)
       \/ \E t \in Threads : LookupGate(t)
       \/ \E t \in Threads : LookupRow(t)
       \/ \E t \in Threads : HealthModel(t)
       \/ \E t \in Threads : HealthAirports(t)
       \/ \E t \in Threads : HomeInfo(t)
    /\ UNCHANGED <<trainVars, spc, mode, request, response, calls, prev>>

SpecConc == InitConc /\ [][NextConc]_vars

---------------------------------------------------------------------------
(* Properties of the server. *)

ModelLoaded == model # None
DirectoryLoaded == airports_df # None
\* Ready: the server answers requests with the three artifacts loaded
Ready == Serving /\ model # None /\ model_info # None /\ airports_df # None

IsPredict == request.op = "predict"
ErrorIs(msg) == response.body = [error |-> msg]

MsgNoJson == "No JSON data provided"
MsgMissing == "Missing required fields: day_of_week and airport_id"
MsgDay == "day_of_week must be an integer between 1 (Monday) and 7 (Sunday)"
MsgAirportType == "airport_id must be an integer"
MsgUnknownAirport == "Airport ID not found in database"

BothPresent(data) == data.day_of_week.kind # "absent" /\ data.airport_id.kind # "absent"
\* an integer as Python tests it (isinstance(v, int) holds of True and False)
PyIsInt(v) == v.kind = "int" \/ v.kind = "bool"
\* an integer of JSON: a number without fraction, not true or false
JsonIsInt(v) == v.kind = "int"
PyDayInRange(v) == PyInt(v) >= 1 /\ PyInt(v) <= 7
DirectoryIds == {airports_df.rows[i].AirportID : i \in DOMAIN airports_df.rows}

\* C1 as stated: the error is that of the first failing check in the order
\* presence, both types, range of day_of_week, airport in the directory; so a
\* body with both fields whose airport_id is no integer gets the airport_id
\* type error whenever day_of_week is an integer, in range or not.  "Integer"
\* is read here as the code tests it, so that only the order is at stake.
C1_SpecOrder ==
    (IsPredict /\ ModelLoaded /\ DirectoryLoaded) =>
        LET data == request.data
        IN  /\ ~BothPresent(data) => (ErrorIs(MsgNoJson) \/ ErrorIs(MsgMissing))
            /\ (BothPresent(data) /\ ~PyIsInt(data.day_of_week)) => ErrorIs(MsgDay)
            /\ (BothPresent(data) /\ PyIsInt(data.day_of_week) /\ ~PyIsInt(data.airport_id))
                   => ErrorIs(MsgAirportType)
            /\ (BothPresent(data) /\ PyIsInt(data.day_of_week) /\ PyIsInt(data.airport_id)
                    /\ ~PyDayInRange(data.day_of_week)) => ErrorIs(MsgDay)

\* C1 amended: with the model loaded, the error of a predict request is that of
\* the first failing check in the order (1) the body is not empty and holds
\* both fields, (2) day_of_week is an int (as isinstance tests it) within 1..7,
\* (3) airport_id is an int, (4) airport_id is in the directory when a directory
\* is loaded; a body passing all four reaches the classifier.
C1_CodeOrder ==
    (IsPredict /\ ModelLoaded) =>
        LET data == request.data
            dayBad == ~PyIsInt(data.day_of_week) \/ ~PyDayInRange(data.day_of_week)
            unknown == DirectoryLoaded /\ PyInt(data.airport_id) \notin DirectoryIds
        IN  /\ ~BothPresent(data) => (ErrorIs(MsgNoJson) \/ ErrorIs(MsgMissing))
            /\ ~BothPresent(data) => response.status = 400
            /\ (BothPresent(data) /\ dayBad) => (ErrorIs(MsgDay) /\ response.status = 400)
            /\ (BothPresent(data) /\ ~dayBad /\ ~PyIsInt(data.airport_id))
                   => (ErrorIs(MsgAirportType) /\ response.status = 400)
            /\ (BothPresent(data) /\ ~dayBad /\ PyIsInt(data.airport_id) /\ unknown)
                   => (ErrorIs(MsgUnknownAirport) /\ response.status = 400)
            /\ (BothPresent(data) /\ ~dayBad /\ PyIsInt(data.airport_id) /\ ~unknown)
                   => (calls = 1 /\ response.status \in {200, 500})

\* C1 witness: day_of_week is an integer out of range, airport_id is a string,
\* and the answer is the day_of_week error
C1_Witness ==
    /\ IsPredict /\ ModelLoaded /\ DirectoryLoaded
    /\ request.data.day_of_week = JInt(8)
    /\ request.data.airport_id = JStr
    /\ ErrorIs(MsgDay)
    /\ response.status = 400

\* a body that fails one of the four checks of the contract
InvalidInput(data) ==
    \/ ~BothPresent(data)
    \/ ~JsonIsInt(data.day_of_week)
    \/ ~JsonIsInt(data.airport_id)
    \/ data.day_of_week.val < 1
    \/ data.day_of_week.val > 7
    \/ data.airport_id.val \notin DirectoryIds

\* C2: on a Ready server, a predict request whose body fails a validation
\* check (missing field, non-integer field, day_of_week outside 1..7,
\* airport_id absent from the directory) makes no predict_proba call and is
\* answered 400.
C2_InvalidNeverPredicts ==
    (IsPredict /\ Ready /\ InvalidInput(request.data)) =>
        (calls = 0 /\ response.status = 400)

AnyFileMissing ==
    \/ files.model_pkl = Missing
    \/ files.model_info_pkl = Missing
    \/ files.airports_csv = Missing

\* C4: run as a script, the server reaches app.run() only with model,
\* model_info and airports_df all loaded; when one of the three files cannot
\* be loaded, load_model_and_data returns False, app.run() is never started
\* and no request is answered.
C4_ServeOnlyLoaded ==
    mode = "main" =>
        /\ spc = "serving" => (model # None /\ model_info # None /\ airports_df # None)
        /\ AnyFileMissing => (spc # "serving" /\ request.op = "none")
        /\ spc = "exited" => AnyFileMissing
        /\ request.op # "none" => Ready

\* C4 witness: the airports table could not be loaded after the model was, and
\* the script ended without serving
C4_Witness ==
    /\ mode = "main"
    /\ spc = "exited"
    /\ model # None
    /\ airports_df = None

\* the request answered is a predict whose body passes every check of the code
ValidPredict(req) ==
    /\ req.op = "predict"
    /\ BothPresent(req.data)
    /\ PyIsInt(req.data.day_of_week) /\ PyDayInRange(req.data.day_of_week)
    /\ PyIsInt(req.data.airport_id)
    /\ PyInt(req.data.airport_id) \in DirectoryIds

\* C5: once Ready the server stays Ready: no step taken in a Ready state, a
\* request ending in 200, 400, 404 or 500 included, changes model, model_info
\* or airports_df or the serving position; and whatever was answered before, a
\* valid predict on a loaded classifier is answered 200.
C5_StaysReady ==
    [][Ready =>
         /\ Ready'
         /\ model' = model /\ model_info' = model_info /\ airports_df' = airports_df
         /\ spc' = spc
         /\ (ValidPredict(request') /\ model.kind = "RandomForestClassifier")
                => response'.status = 200]_vars

\* C5 witness: Ready, a request was answered 400 and the valid predict after
\* it is answered 200
C5_Witness ==
    /\ Ready
    /\ prev = 400
    /\ ValidPredict(request)
    /\ response.status = 200

\* C6: with the directory loaded, predict with a valid day_of_week and an
\* integer airport_id absent from the directory is answered 400 with the
\* unknown-airport error, get_airport on an absent id is answered 404;
\* get_airport never answers 400 and predict never answers 404.
C6_AbsentAirport ==
    DirectoryLoaded =>
        /\ (IsPredict /\ ModelLoaded /\ BothPresent(request.data)
              /\ JsonIsInt(request.data.day_of_week)
              /\ PyDayInRange(request.data.day_of_week)
              /\ JsonIsInt(request.data.airport_id)
              /\ request.data.airport_id.val \notin DirectoryIds)
               => (response.status = 400 /\ ErrorIs(MsgUnknownAirport))
        /\ (request.op = "airport" /\ request.airport_id \notin DirectoryIds)
               => response.status = 404
        /\ request.op = "airport" => response.status # 400
        /\ IsPredict => response.status # 404

\* C6 witness: get_airport answered 404 on an id that predict rejects with 400
C6_Witness ==
    /\ DirectoryLoaded
    /\ request.op = "airport"
    /\ request.airport_id \notin DirectoryIds
    /\ response.status = 404
    /\ predict_delay(model, airports_df,
                     [day_of_week |-> JInt(1),
                      airport_id |-> JInt(request.airport_id)]).status = 400

\* the ids of the persisted airports table
PersistedIds == {files.airports_csv.lines[i][1] : i \in DOMAIN files.airports_csv.lines}

\* C7: over the loaded directory, get_airport answers an id of the persisted
\* table with exactly one record, whose id is the id asked for, and any other
\* id with 404; no id occurs in two rows of the directory.
C7_LookupTotalUnique ==
    DirectoryLoaded =>
        /\ \A i, j \in DOMAIN airports_df.rows :
              airports_df.rows[i].AirportID = airports_df.rows[j].AirportID => i = j
        /\ DirectoryIds = PersistedIds
        /\ request.op = "airport" =>
              IF request.airport_id \in PersistedIds
              THEN /\ response.status = 200
                   /\ response.body.airport.id = request.airport_id
                   /\ Cardinality({i \in DOMAIN airports_df.rows :
                          airports_df.rows[i].AirportID = request.airport_id}) = 1
                   /\ \E i \in DOMAIN airports_df.rows :
                          response.body.airport = AirportJson(airports_df.rows[i])
              ELSE response.status = 404

\* C7 witness: a directory of two airports, one of them looked up and found
C7_Witness ==
    /\ DirectoryLoaded
    /\ Len(airports_df.rows) >= 2
    /\ request.op = "airport"
    /\ response.status = 200

\* the candidate list: all origin-side rows, then all destination-side rows
Candidates == origin_airports(df_clean) \o dest_airports(df_clean)

StrictlyAscendingIds(ids) == \A i, j \in DOMAIN ids : i < j => ids[i] < ids[j]

\* C8: the airports table built at training time has one entry for each
\* distinct airport id of the origin and destination columns (a missing id
\* counts as the 0 that cleaning puts in its place) and no other; each entry
\* is the first row of that id in the candidate list; the table, and the file
\* written from it, are strictly ascending by id.
C8_DirectoryBuild ==
    /\ tpc \in {"save_airports", "done"} =>
          /\ {all_airports[k].AirportID : k \in DOMAIN all_airports}
                 = {Candidates[i].AirportID : i \in DOMAIN Candidates}
          /\ StrictlyAscendingIds([k \in DOMAIN all_airports |-> all_airports[k].AirportID])
          /\ \A k \in DOMAIN all_airports :
                \E i \in DOMAIN Candidates :
                   /\ Candidates[i] = all_airports[k]
                   /\ \A j \in 1..(i - 1) :
                         Candidates[j].AirportID # all_airports[k].AirportID
    /\ tpc = "done" =>
          /\ files.airports_csv # Missing
          /\ Len(files.airports_csv.lines) = Len(all_airports)
          /\ StrictlyAscendingIds([k \in DOMAIN files.airports_csv.lines |->
                                      files.airports_csv.lines[k][1]])
          /\ \A k \in DOMAIN all_airports :
                files.airports_csv.lines[k][1] = all_airports[k].AirportID
                /\ files.airports_csv.lines[k][2] = all_airports[k].AirportName

\* C8 witness: an id is the origin of the second row under one name and the
\* destination of the first row under another, and the table written holds it
\* once, under the origin's name
C8_Witness ==
    /\ tpc = "done"
    /\ Len(df_clean) = 2
    /\ df_clean[2].OriginAirportID = df_clean[1].DestAirportID
    /\ df_clean[2].OriginAirportName # df_clean[1].DestAirportName
    /\ df_clean[1].OriginAirportID # df_clean[1].DestAirportID
    /\ Len(all_airports) = 2
    /\ \E k \in DOMAIN all_airports :
          /\ all_airports[k].AirportID = df_clean[2].OriginAirportID
          /\ all_airports[k].AirportName = df_clean[2].OriginAirportName

\* C9: list_airports on a loaded directory returns every record of the
\* directory exactly once, in non-decreasing order of name, with total_count
\* the number of records returned; with no directory loaded it answers 500 and
\* lists nothing.
C9_ListAirports ==
    request.op = "airports" =>
        IF DirectoryLoaded
        THEN LET listed == response.body.airports
             IN  /\ response.status = 200
                 /\ Len(listed) = Len(airports_df.rows)
                 /\ \E p \in [DOMAIN listed -> DOMAIN listed] :
                       /\ \A i, j \in DOMAIN listed : i # j => p[i] # p[j]
                       /\ \A i \in DOMAIN listed :
                             listed[i] = AirportJson(airports_df.rows[p[i]])
                 /\ \A i \in 1..(Len(listed) - 1) :
                       StrRank(listed[i].name) <= StrRank(listed[i + 1].name)
                 /\ response.body.total_count = Len(listed)
        ELSE /\ response.status = 500
             /\ ErrorIs("Airports data not loaded")

\* C9 witness: two airports listed in an order that is not their order by id
C9_Witness ==
    /\ request.op = "airports"
    /\ response.status = 200
    /\ Len(response.body.airports) = 2
    /\ response.body.airports[1].id > response.body.airports[2].id
    /\ response.body.airports[1].name # response.body.airports[2].name

\* C10: in every successful predict response, delay_probability is the
\* classifier's probability of class 1 and no_delay_probability that of
\* class 0 for the features of the request, confidence_percent is
\* 100 * max(delay_probability, no_delay_probability) and
\* delay_chance_percent is 100 * delay_probability.
C10_Confidence ==
    (IsPredict /\ response.status = 200) =>
        LET proba == predict_proba(model, <<PyInt(request.data.day_of_week),
                                            PyInt(request.data.airport_id)>>)
            body == response.body
            larger == IF body.delay_probability > body.no_delay_probability
                      THEN body.delay_probability ELSE body.no_delay_probability
        IN  /\ body.delay_probability = proba[2]
            /\ body.no_delay_probability = proba[1]
            /\ body.confidence_percent = larger * 100
            /\ body.delay_chance_percent = body.delay_probability * 100

\* C10 witness: a successful predict in which no delay is the likelier class,
\* so that the confidence is not the delay chance
C10_Witness ==
    /\ IsPredict
    /\ response.status = 200
    /\ response.body.no_delay_probability > response.body.delay_probability
    /\ response.body.confidence_percent = response.body.no_delay_probability * 100

\* C11: in every successful predict response confidence_level is "High"
\* exactly when confidence_percent > 80, "Medium" exactly when
\* 60 < confidence_percent <= 80 and "Low" exactly when confidence_percent <= 60
\* (80 is Medium, 60 is Low), and confidence_percent is never below 50.
\* A percent value v is held as 100 * v.
C11_ConfidenceTier ==
    (IsPredict /\ response.status = 200) =>
        LET c == response.body.confidence_percent
            level == response.body.interpretation.confidence_level
        IN  /\ level \in {"High", "Medium", "Low"}
            /\ level = "High" <=> c > 8000
            /\ level = "Medium" <=> (c > 6000 /\ c <= 8000)
            /\ level = "Low" <=> c <= 6000
            /\ c >= 5000

\* C11 witness: a confidence of exactly 80 percent, reported Medium
C11_Witness ==
    /\ IsPredict
    /\ response.status = 200
    /\ response.body.confidence_percent = 8000
    /\ response.body.interpretation.confidence_level = "Medium"

\* the fixed mapping 1=Monday ... 7=Sunday
DayNameOf(d) ==
    CASE d = 1 -> "Monday" [] d = 2 -> "Tuesday" [] d = 3 -> "Wednesday"
      [] d = 4 -> "Thursday" [] d = 5 -> "Friday" [] d = 6 -> "Saturday"
      [] d = 7 -> "Sunday"

\* C12: on a Ready server whose model artifact is a fitted classifier, predict
\* with an integer day_of_week in 1..7 and an integer airport_id of the
\* directory is answered 200 with every field of the response present,
\* delay_probability within [0,1] and delay_probability + no_delay_probability
\* equal to 1 (a probability p is held as 100 * p); the echoed input carries
\* the same day_of_week and airport_id, day_name by the mapping 1=Monday ...
\* 7=Sunday, and airport_name from the directory record of that id.
C12_ValidPredict ==
    (IsPredict /\ Ready /\ model.kind = "RandomForestClassifier"
       /\ BothPresent(request.data)
       /\ JsonIsInt(request.data.day_of_week) /\ JsonIsInt(request.data.airport_id)
       /\ request.data.day_of_week.val \in 1..7
       /\ request.data.airport_id.val \in DirectoryIds) =>
        LET body == response.body
            id == request.data.airport_id.val
        IN  /\ response.status = 200
            /\ DOMAIN body = {"delay_probability", "delay_chance_percent",
                              "confidence_percent", "no_delay_probability",
                              "input", "interpretation"}
            /\ DOMAIN body.input = {"day_of_week", "day_name", "airport_id", "airport_name"}
            /\ DOMAIN body.interpretation = {"message", "confidence_level"}
            /\ body.delay_probability >= 0 /\ body.delay_probability <= 100
            /\ body.delay_probability + body.no_delay_probability = 100
            /\ body.input.day_of_week = request.data.day_of_week
            /\ body.input.airport_id = request.data.airport_id
            /\ body.input.day_name = DayNameOf(request.data.day_of_week.val)
            /\ \E i \in DOMAIN airports_df.rows :
                  /\ airports_df.rows[i].AirportID = id
                  /\ airports_df.rows[i].AirportName = body.input.airport_name

\* C12 witness: Sunday at an airport of a directory of two, answered 200
C12_Witness ==
    /\ IsPredict /\ Ready
    /\ request.data.day_of_week = JInt(7)
    /\ JsonIsInt(request.data.airport_id)
    /\ request.data.airport_id.val \in DirectoryIds
    /\ Len(airports_df.rows) = 2
    /\ response.status = 200
    /\ response.body.input.day_name = "Sunday"

\* C17: the readiness gate of predict tests only the model.  With the model
\* loaded and no airport directory, a predict request with integer fields and
\* day_of_week in 1..7 skips the unknown-airport check for every airport_id and
\* calls the classifier, and is answered 200 with airport_name "Unknown" when
\* the classifier returns; health reports model_loaded true and
\* airports_loaded false; list_airports and get_airport answer 500.
C17_ModelOnlyGate ==
    (Serving /\ ModelLoaded /\ ~DirectoryLoaded) =>
        /\ (IsPredict /\ BothPresent(request.data)
              /\ JsonIsInt(request.data.day_of_week) /\ JsonIsInt(request.data.airport_id)
              /\ request.data.day_of_week.val \in 1..7) =>
               /\ calls = 1
               /\ model.kind = "RandomForestClassifier" =>
                     /\ response.status = 200
                     /\ response.body.input.airport_name = "Unknown"
        /\ request.op = "health" =>
               /\ response.status = 200
               /\ response.body.model_loaded = TRUE
               /\ response.body.airports_loaded = FALSE
        /\ request.op \in {"airports", "airport"} =>
               /\ response.status = 500
               /\ ErrorIs("Airports data not loaded")

\* C17 witness: no directory, and a predict for an airport id that no airports
\* table holds is answered 200 with the name "Unknown"
C17_Witness ==
    /\ Serving /\ ModelLoaded /\ ~DirectoryLoaded
    /\ IsPredict
    /\ request.data.day_of_week = JInt(1)
    /\ request.data.airport_id = JInt(MaxId + 1)
    /\ calls = 1
    /\ response.status = 200
    /\ response.body.input.airport_name = "Unknown"

\* C16: the cleaning step yields a table with the same number of rows as the
\* raw table and no missing cell, every missing cell being replaced by zero,
\* and a DepDel15 column whose every value is an integer in {0, 1}.
C16_CleanBinary ==
    tpc # "clean" =>
        /\ Len(df_clean) = Len(df)
        /\ \A i \in DOMAIN df_clean :
              /\ \A c \in NumericColumns \ {"DepDel15"} :
                    df_clean[i][c] = (IF df[i][c] = NaN THEN 0 ELSE df[i][c])
              /\ df[i].DepDel15 = NaN => df_clean[i].DepDel15 = 0
              /\ df_clean[i].DepDel15 \in {0, 1}

\* the request field that a recorded feature name stands for
FieldFor(name, data) ==
    IF name = "DayOfWeek" THEN PyInt(data.day_of_week) ELSE PyInt(data.airport_id)

RecordsVersion(blob) ==
    \/ "version" \in DOMAIN blob
    \/ "version" \in DOMAIN pickle_load(blob)

\* C14 as stated: saving the model artifact records a serialization format
\* version (which a loader could compare with its own): once the save step has
\* run, the classifier file and the metadata file each name one.
C14_VersionRecorded ==
    tpc \in {"airports", "save_airports", "done"} =>
        /\ files.model_pkl # Missing => RecordsVersion(files.model_pkl)
        /\ files.model_info_pkl # Missing => RecordsVersion(files.model_info_pkl)

\* the responses the handler of a request can give when it runs alone over
\* the globals m, info, adf
RunAlone(req, m, info, adf) ==
    LET answers ==
            CASE req.op = "predict" -> {predict_delay(m, adf, req.data)}
              [] req.op = "airports" ->
                    {get_airports(adf, s) :
                        s \in (IF adf = None THEN {<<>>} ELSE sort_values_by_name(adf.rows))}
              [] req.op = "airport" -> {get_airport_by_id(adf, req.airport_id)}
              [] req.op = "health" -> {health_check(m, adf)}
              [] req.op = "home" -> {home(info)}
    IN  {[status |-> r.status, body |-> r.body] : r \in answers}

\* C15: no handler writes the shared state (the three globals stay what the
\* start-up left), so however the steps of two concurrent requests interleave,
\* each request gets a response its handler gives when run alone.
C15_RunAlone ==
    /\ <<model, model_info, airports_df>>
          = <<LoadedGlobals[1], LoadedGlobals[2], LoadedGlobals[3]>>
    /\ \A t \in Threads :
          threads[t].pc = "done" =>
              threads[t].resp \in RunAlone(threads[t].req, LoadedGlobals[1],
                                           LoadedGlobals[2], LoadedGlobals[3])

\* C15 witness: a listing whose sort changed the order of the table is
\* answered by one thread while the other is inside a predict, past the
\* classifier call and before the read of airports_df for the airport name
C15_Witness ==
    \E t, u \in Threads :
        /\ t # u
        /\ threads[t].pc = "done"
        /\ threads[t].req.op = "airports"
        /\ threads[t].resp.status = 200
        /\ airports_df.rows \notin sort_values_by_name(airports_df.rows)
        /\ threads[u].pc = "p_respond"

===========================================================================
